---- MODULE Spec2Model ----
(***************************************************************************)
(* Redirect rules of readthedocs (readthedocs/redirects/models.py).        *)
(*                                                                         *)
(* A Python str is modelled as a sequence of one-character strings, so     *)
(* that str.replace, str.split, startswith/endswith, slicing and the       *)
(* regular expressions of the code are computed character by character.    *)
(* Python's None is modelled by the record None for the nullable column    *)
(* from_url_without_rest and by the result kind "none" for a method that   *)
(* falls off its end.                                                      *)
(***************************************************************************)
EXTENDS Naturals, Integers, Sequences, FiniteSets, TLC

VARIABLES
    rule,      \* the Redirect instance / row: its field values
    saved,     \* TRUE once the row has been written by save()
    prev_fwr,  \* history: from_url_without_rest held on entry to the last save()
    pc,        \* "idle" | "returned": position of a get_redirect_path call
    request,   \* arguments of the last get_redirect_path call
    result,    \* what that call returned (or raised)
    rules,     \* resolver: the ordered sequence of active rules supplied
    idx,       \* resolver: index of the next rule to evaluate (0 = not running)
    evals,     \* resolver: how many times each rule's matcher has been run
    outcome,   \* resolver: the value returned by resolve
    exchanges, \* the HttpExchange table: its rows
    created,   \* history: every HttpExchange row ever created
    now,       \* the clock that auto_now_add reads
    obj        \* the row returned by the last from_*exchange call

\* The redirect rule, its resolution and the resolver
rvars == <<rule, saved, prev_fwr, pc, request, result, rules, idx, evals, outcome>>

\* The HTTP exchanges
xvars == <<exchanges, created, now, obj>>

vars == <<rvars, xvars>>

-----------------------------------------------------------------------------
(* Bounds of the model *)

\* Directory prefixes "", "/a", "/a/a", ... have at most MaxDepth segments.
MaxDepth == 2

\* The resolver is handed at most MaxRules rules.
MaxRules == 2

\* At most MaxCalls exchanges are recorded in all.
MaxCalls == 12

-----------------------------------------------------------------------------
(* String literals *)

EMPTY == << >>
SLASH == <<"/">>
REST == <<"$", "r", "e", "s", "t">>
DOT_HTML == <<".", "h", "t", "m", "l">>
INDEX_HTML == <<"/", "i", "n", "d", "e", "x", ".", "h", "t", "m", "l">>
HTTP == <<"h", "t", "t", "p", ":", "/", "/">>
HTTPS == <<"h", "t", "t", "p", "s", ":", "/", "/">>

-----------------------------------------------------------------------------
(* Python str operations used by the code *)

\* s[n:]
DropFirst(s, n) == SubSeq(s, n + 1, Len(s))

\* s.startswith(p)
StartsWith(s, p) == Len(p) <= Len(s) /\ SubSeq(s, 1, Len(p)) = p

\* s.endswith(p)
EndsWith(s, p) ==
    Len(p) <= Len(s) /\ SubSeq(s, Len(s) - Len(p) + 1, Len(s)) = p

\* sub in s
Contains(s, sub) ==
    \E i \in 1..(Len(s) + 1) :
        i + Len(sub) - 1 <= Len(s) /\ SubSeq(s, i, i + Len(sub) - 1) = sub

\* s.replace(old, new, count): left to right, non-overlapping, at most count
\* replacements; a negative count means no limit. An empty old matches before
\* every character and at the end.
RECURSIVE Replace(_, _, _, _)
Replace(s, old, new, count) ==
    IF count = 0 THEN s
    ELSE IF old = EMPTY
         THEN new \o (IF s = EMPTY THEN EMPTY
                      ELSE <<Head(s)>> \o Replace(Tail(s), old, new, count - 1))
    ELSE IF Len(s) < Len(old) THEN s
    ELSE IF StartsWith(s, old)
         THEN new \o Replace(DropFirst(s, Len(old)), old, new, count - 1)
    ELSE <<Head(s)>> \o Replace(Tail(s), old, new, count)

\* s.replace(old, new)
ReplaceAll(s, old, new) == Replace(s, old, new, -1)

\* s.split(sep, maxsplit=1)[0]: the part before the first sep, or all of s
RECURSIVE SplitFirst(_, _)
SplitFirst(s, sep) ==
    IF Len(s) < Len(sep) THEN s
    ELSE IF StartsWith(s, sep) THEN EMPTY
    ELSE <<Head(s)>> \o SplitFirst(Tail(s), sep)

\* s.lstrip("/"): every leading "/" is removed
RECURSIVE LStripSlash(_)
LStripSlash(s) ==
    IF s /= EMPTY /\ Head(s) = "/" THEN LStripSlash(Tail(s)) ELSE s

\* One pattern character against one subject character: "." is the regex
\* wildcard (any character but a newline), every other character is literal.
RegexCharMatch(p, c) == IF p = "." THEN c /= "\n" ELSE p = c

\* The pattern pat matches s at position i (1-based) and "$" holds right after:
\* at the end of s, or just before a newline that ends s.
RegexMatchAtEnd(pat, s, i) ==
    LET e == i + Len(pat)
    IN  /\ e - 1 <= Len(s)
        /\ \A k \in 1..Len(pat) : RegexCharMatch(pat[k], s[i + k - 1])
        /\ \/ e = Len(s) + 1
           \/ e = Len(s) /\ s[e] = "\n"

\* re.sub(pat + "$", repl, s) for a non-empty pat: the leftmost match is
\* replaced; what follows it (at most a final newline) cannot match again.
ReSubAtEnd(pat, repl, s) ==
    LET starts == {i \in 1..Len(s) : RegexMatchAtEnd(pat, s, i)}
    IN  IF starts = {} THEN s
        ELSE LET i == CHOOSE j \in starts : \A k \in starts : j <= k
             IN  SubSeq(s, 1, i - 1) \o repl \o DropFirst(s, i + Len(pat) - 1)

\* re.match("^https?://", s)
MatchesHttpScheme(s) == StartsWith(s, HTTP) \/ StartsWith(s, HTTPS)

-----------------------------------------------------------------------------
(* Values *)

\* None in the nullable column from_url_without_rest, and a stored string
None == [isNone |-> TRUE, value |-> EMPTY]
Some(s) == [isNone |-> FALSE, value |-> s]

\* language=None / version_slug=None: the optional arguments left out
NoneArg == "None"

\* A method that falls off its end returns None: NO_MATCH
NoMatch ==
    [kind |-> "none", value |-> EMPTY, language |-> NoneArg, version_slug |-> NoneArg]

\* A str returned as it is
Str(s) ==
    [kind |-> "str", value |-> s, language |-> NoneArg, version_slug |-> NoneArg]

\* getattr(self, "redirect_<type>") finds no such method
AttributeError ==
    [kind |-> "AttributeError", value |-> EMPTY,
     language |-> NoneArg, version_slug |-> NoneArg]

\* readthedocs.core.resolver.resolve_path(project, language, version_slug,
\* filename): the site's canonical path builder, an external collaborator. Its
\* result is kept as the call it was given.
resolve_path(language, version_slug, filename) ==
    [kind |-> "resolve_path", value |-> filename,
     language |-> language, version_slug |-> version_slug]

TYPE_CHOICES == {"prefix", "page", "exact", "sphinx_html", "sphinx_htmldir"}

\* Redirect(): the field defaults of a new instance
NewRedirect ==
    [redirect_type |-> "", from_url |-> EMPTY, from_url_without_rest |-> None,
     to_url |-> EMPTY, force |-> FALSE, http_status |-> 302, status |-> TRUE]

-----------------------------------------------------------------------------
(* Redirect: the methods *)

\* Faulty variant of save: only the first $rest token is taken out
save_first_rest_only(self) ==
    IF self.redirect_type = "exact" /\ Contains(self.from_url, REST)
    THEN [self EXCEPT !.from_url_without_rest =
                          Some(Replace(self.from_url, REST, EMPTY, 1))]
    ELSE self

\* Redirect.save: the fields as super().save() writes them
save(self) ==
    IF self.redirect_type = "exact" /\ Contains(self.from_url, REST)
    THEN [self EXCEPT !.from_url_without_rest =
                          Some(ReplaceAll(self.from_url, REST, EMPTY))]
    ELSE self

\* Faulty variant of get_full_path: allow_crossdomain is not looked at
get_full_path_any_crossdomain(self, filename, language, version_slug, allow) ==
    IF MatchesHttpScheme(filename)
    THEN Str(filename)
    ELSE resolve_path(language, version_slug, filename)

\* Redirect.get_full_path
get_full_path(self, filename, language, version_slug, allow_crossdomain) ==
    IF allow_crossdomain /\ MatchesHttpScheme(filename)
    THEN Str(filename)
    ELSE resolve_path(language, version_slug, filename)

\* Faulty variant of redirect_prefix: from_url is cut out of path wherever it
\* occurs
redirect_prefix_cut_everywhere(self, path, full_path, language, version_slug) ==
    IF StartsWith(path, self.from_url)
    THEN LET cut_path == ReplaceAll(path, self.from_url, EMPTY)
         IN  get_full_path(self, cut_path, language, version_slug, FALSE)
    ELSE NoMatch

\* Redirect.redirect_prefix
redirect_prefix(self, path, full_path, language, version_slug) ==
    IF StartsWith(path, self.from_url)
    THEN LET cut_path == DropFirst(path, Len(self.from_url))
         IN  get_full_path(self, cut_path, language, version_slug, FALSE)
    ELSE NoMatch

\* Faulty variant of redirect_page: allow_crossdomain is not passed
redirect_page_no_crossdomain(self, path, full_path, language, version_slug) ==
    IF path = self.from_url
    THEN get_full_path(self, LStripSlash(self.to_url), language, version_slug, FALSE)
    ELSE NoMatch

\* Redirect.redirect_page
redirect_page(self, path, full_path, language, version_slug) ==
    IF path = self.from_url
    THEN get_full_path(self, LStripSlash(self.to_url), language, version_slug, TRUE)
    ELSE NoMatch

\* Faulty variant of redirect_exact: the version-relative path is compared
\* with from_url instead of the full path
redirect_exact_on_path(self, path, full_path, language, version_slug) ==
    IF path = self.from_url THEN Str(self.to_url)
    ELSE IF Contains(self.from_url, REST)
         THEN LET match == SplitFirst(self.from_url, REST)
              IN  IF StartsWith(full_path, match)
                  THEN Str(Replace(full_path, match, self.to_url, 1))
                  ELSE NoMatch
    ELSE NoMatch

\* Faulty variant of redirect_exact: every occurrence of match is replaced
redirect_exact_replace_all(self, path, full_path, language, version_slug) ==
    IF full_path = self.from_url THEN Str(self.to_url)
    ELSE IF Contains(self.from_url, REST)
         THEN LET match == SplitFirst(self.from_url, REST)
              IN  IF StartsWith(full_path, match)
                  THEN Str(ReplaceAll(full_path, match, self.to_url))
                  ELSE NoMatch
    ELSE NoMatch

\* Faulty variant of redirect_exact: an empty to_url is returned as None
redirect_exact_empty_is_none(self, path, full_path, language, version_slug) ==
    IF full_path = self.from_url
    THEN IF self.to_url = EMPTY THEN NoMatch ELSE Str(self.to_url)
    ELSE IF Contains(self.from_url, REST)
         THEN LET match == SplitFirst(self.from_url, REST)
              IN  IF StartsWith(full_path, match)
                  THEN Str(Replace(full_path, match, self.to_url, 1))
                  ELSE NoMatch
    ELSE NoMatch

\* Redirect.redirect_exact
redirect_exact(self, path, full_path, language, version_slug) ==
    IF full_path = self.from_url THEN Str(self.to_url)
    ELSE IF Contains(self.from_url, REST)
         THEN LET match == SplitFirst(self.from_url, REST)
              IN  IF StartsWith(full_path, match)
                  THEN Str(Replace(full_path, match, self.to_url, 1))
                  ELSE NoMatch
    ELSE NoMatch

\* The endings redirect_sphinx_html tries, in order
SphinxHtmlEndings == <<SLASH, INDEX_HTML>>

\* The body of redirect_sphinx_html's for loop, from the k-th ending on
RECURSIVE SphinxHtmlFrom(_, _, _, _, _)
SphinxHtmlFrom(self, k, path, language, version_slug) ==
    IF k > Len(SphinxHtmlEndings) THEN NoMatch
    ELSE LET ending == SphinxHtmlEndings[k]
         IN  IF EndsWith(path, ending)
             THEN LET stripped == DropFirst(path, 1)
                      to == ReSubAtEnd(ending, DOT_HTML, stripped)
                  IN  get_full_path(self, to, language, version_slug, FALSE)
             ELSE SphinxHtmlFrom(self, k + 1, path, language, version_slug)

\* Faulty variant of redirect_sphinx_html: the ending is replaced wherever it
\* occurs, not only at the end
redirect_sphinx_html_unanchored(self, path, full_path, language, version_slug) ==
    IF EndsWith(path, SLASH)
    THEN get_full_path(self, ReplaceAll(DropFirst(path, 1), SLASH, DOT_HTML),
                       language, version_slug, FALSE)
    ELSE IF EndsWith(path, INDEX_HTML)
    THEN get_full_path(self, ReplaceAll(DropFirst(path, 1), INDEX_HTML, DOT_HTML),
                       language, version_slug, FALSE)
    ELSE NoMatch

\* Redirect.redirect_sphinx_html
redirect_sphinx_html(self, path, full_path, language, version_slug) ==
    SphinxHtmlFrom(self, 1, path, language, version_slug)

\* Faulty variant of redirect_sphinx_htmldir: ".html" is replaced wherever it
\* occurs, not only at the end
redirect_sphinx_htmldir_unanchored(self, path, full_path, language, version_slug) ==
    IF EndsWith(path, DOT_HTML)
    THEN get_full_path(self, ReplaceAll(DropFirst(path, 1), DOT_HTML, SLASH),
                       language, version_slug, FALSE)
    ELSE NoMatch

\* Redirect.redirect_sphinx_htmldir
redirect_sphinx_htmldir(self, path, full_path, language, version_slug) ==
    IF EndsWith(path, DOT_HTML)
    THEN LET stripped == DropFirst(path, 1)
             to == ReSubAtEnd(DOT_HTML, SLASH, stripped)
         IN  get_full_path(self, to, language, version_slug, FALSE)
    ELSE NoMatch

\* Faulty variant of get_redirect_path: an empty destination is taken for no
\* destination
get_redirect_path_empty_is_none(self, path, full_path, language, version_slug) ==
    LET to == CASE self.redirect_type = "prefix" ->
                       redirect_prefix(self, path, full_path, language, version_slug)
                [] self.redirect_type = "page" ->
                       redirect_page(self, path, full_path, language, version_slug)
                [] self.redirect_type = "exact" ->
                       redirect_exact(self, path, full_path, language, version_slug)
                [] self.redirect_type = "sphinx_html" ->
                       redirect_sphinx_html(self, path, full_path, language,
                                            version_slug)
                [] self.redirect_type = "sphinx_htmldir" ->
                       redirect_sphinx_htmldir(self, path, full_path, language,
                                               version_slug)
                [] OTHER -> AttributeError
    IN  IF to = Str(EMPTY) THEN NoMatch ELSE to

\* Redirect.get_redirect_path: the method is looked up by the type's name
get_redirect_path(self, path, full_path, language, version_slug) ==
    CASE self.redirect_type = "prefix" ->
             redirect_prefix(self, path, full_path, language, version_slug)
      [] self.redirect_type = "page" ->
             redirect_page(self, path, full_path, language, version_slug)
      [] self.redirect_type = "exact" ->
             redirect_exact(self, path, full_path, language, version_slug)
      [] self.redirect_type = "sphinx_html" ->
             redirect_sphinx_html(self, path, full_path, language, version_slug)
      [] self.redirect_type = "sphinx_htmldir" ->
             redirect_sphinx_htmldir(self, path, full_path, language, version_slug)
      [] OTHER -> AttributeError

-----------------------------------------------------------------------------
(* HttpExchange (readthedocs/integrations/models.py) *)

\* delete_limit(related_object, limit=10)
limit == 10

\* The objects exchanges are recorded for, each as the content type and the
\* primary key its generic relation stores
\* (model_name is the instance's class, concrete the model its rows are stored
\* under): an Integration through its proxy class GitHubWebhook, and a WebHook
\* with the same primary key
RelatedObjects ==
    {[model_name |-> "githubwebhook", concrete |-> "integration", pk |-> 1],
     [model_name |-> "webhook", concrete |-> "webhook", pk |-> 1]}

\* The content type a generic relation stores for related_object: that of its
\* concrete model
content_type_of(related_object) == related_object.concrete

\* The model delete_limit looks the content type up for: Integration for any
\* instance of Integration, the object's own class otherwise
lookup_model(related_object) ==
    IF related_object.concrete = "integration" THEN "integration"
    ELSE related_object.model_name

\* No call has returned a row yet
NoExchange == [id |-> 0, content_type |-> "", object_id |-> 0, date |-> 0]

\* An empty table, the clock at its start
NoExchanges ==
    /\ exchanges = {}
    /\ created = {}
    /\ now = 1
    /\ obj = NoExchange

\* self.create(related_object=..., ...): the new row; id is a fresh key and
\* date is the clock's reading (auto_now_add). The headers, bodies and status
\* code stored with it are not read by delete_limit and are left out.
create(related_object) ==
    [id |-> Cardinality(created) + 1,
     content_type |-> content_type_of(related_object),
     object_id |-> related_object.pk,
     date |-> now]

\* self.filter(content_type=..., object_id=related_object.pk) on the rows
filter(rows, related_object) ==
    {x \in rows : /\ x.content_type = lookup_model(related_object)
                  /\ x.object_id = related_object.pk}

\* Faulty variant of delete_limit: the queryset is taken oldest first
delete_limit_oldest_first(rows, related_object, lim) ==
    LET queryset == filter(rows, related_object)
        position(x) == Cardinality({y \in queryset : y.date < x.date}) + 1
    IN  rows \ {x \in queryset : position(x) > lim}

\* HttpExchangeManager.delete_limit: the rows left. The queryset is ordered
\* by Meta.ordering, -date; the rows at queryset[limit:] are deleted.
delete_limit(rows, related_object, lim) ==
    LET queryset == filter(rows, related_object)
        position(x) == Cardinality({y \in queryset : y.date > x.date}) + 1
    IN  rows \ {x \in queryset : position(x) > lim}

-----------------------------------------------------------------------------
(* Inputs *)

\* "", "/a", "/a/a", ...: n segments
RECURSIVE Dir(_)
Dir(n) == IF n = 0 THEN EMPTY ELSE <<"/", "a">> \o Dir(n - 1)

Dirs == {Dir(n) : n \in 0..MaxDepth}

\* from_url: a directory prefix followed by one of these
FromTails ==
    {EMPTY, SLASH, REST, SLASH \o REST, SLASH \o REST \o SLASH \o REST,
     <<"$", "r", "e">> \o REST \o <<"s", "t">>}

FromUrls == {d \o t : d \in Dirs, t \in FromTails}

\* to_url: "", "/b/", "//b", "http://h", "/https://h"
ToUrls ==
    {EMPTY, <<"/", "b", "/">>, <<"/", "/", "b">>, HTTP \o <<"h">>,
     SLASH \o HTTPS \o <<"h">>}

\* The five types and the one TYPE_CHOICES keeps commented out: the column is a
\* CharField, and save() runs no validation of choices.
Types == TYPE_CHOICES \cup {"advanced"}

\* Request paths are absolute: they start with "/".
PathTails ==
    {EMPTY, SLASH, INDEX_HTML, DOT_HTML, <<"/", "x">>,
     DOT_HTML \o <<"/", "a">> \o DOT_HTML}

\* Paths whose part after the leading "/" starts with a scheme:
\* "/http://h/" and "/https://h.html"
SchemePaths ==
    {SLASH \o HTTP \o <<"h">> \o SLASH, SLASH \o HTTPS \o <<"h">> \o DOT_HTML}

Paths ==
    {p \in {d \o t : d \in Dirs, t \in PathTails} : StartsWith(p, SLASH)}
        \cup SchemePaths

FullPathTails == {EMPTY, SLASH, <<"/", "x">>}

FullPaths ==
    {p \in {d \o t : d \in Dirs, t \in FullPathTails} : StartsWith(p, SLASH)}

\* language and version_slug: both left out, or both given
Locales == {<<NoneArg, NoneArg>>, <<"en", "latest">>}

NoRequest ==
    [path |-> EMPTY, full_path |-> EMPTY, language |-> NoneArg,
     version_slug |-> NoneArg]

-----------------------------------------------------------------------------
(* The life of one rule *)

Init ==
    /\ rule = NewRedirect
    /\ saved = FALSE
    /\ prev_fwr = None
    /\ pc = "idle"
    /\ request = NoRequest
    /\ result = NoMatch
    /\ rules = << >>
    /\ idx = 0
    /\ evals = << >>
    /\ outcome = NoMatch
    /\ NoExchanges

\* Redirect.objects.create(redirect_type=t, from_url=f, to_url=u):
\* a new instance with these fields, then save()
CreateRule(t, f, u) ==
    /\ ~saved
    /\ pc = "idle"
    /\ prev_fwr' = NewRedirect.from_url_without_rest
    /\ rule' = save([NewRedirect EXCEPT !.redirect_type = t, !.from_url = f,
                                        !.to_url = u])
    /\ saved' = TRUE
    /\ UNCHANGED <<pc, request, result, rules, idx, evals, outcome, xvars>>

\* An edit of the saved rule's redirect_type and from_url, then save()
UpdateRule(t, f) ==
    /\ saved
    /\ pc = "idle"
    /\ prev_fwr' = rule.from_url_without_rest
    /\ rule' = save([rule EXCEPT !.redirect_type = t, !.from_url = f])
    /\ UNCHANGED <<saved, pc, request, result, rules, idx, evals, outcome, xvars>>

\* Faulty variant of GetRedirectPath: the stripped path is kept on the rule
GetRedirectPath_keeps_path(path, full_path, language, version_slug) ==
    /\ saved
    /\ pc = "idle"
    /\ request' = [path |-> path, full_path |-> full_path,
                   language |-> language, version_slug |-> version_slug]
    /\ result' = get_redirect_path(rule, path, full_path, language, version_slug)
    /\ pc' = "returned"
    /\ rule' = [rule EXCEPT !.from_url = DropFirst(path, 1)]
    /\ UNCHANGED <<saved, prev_fwr, rules, idx, evals, outcome, xvars>>

\* rule.get_redirect_path(path, full_path, language, version_slug) on the
\* saved rule
GetRedirectPath(path, full_path, language, version_slug) ==
    /\ saved
    /\ pc = "idle"
    /\ request' = [path |-> path, full_path |-> full_path,
                   language |-> language, version_slug |-> version_slug]
    /\ result' = get_redirect_path(rule, path, full_path, language, version_slug)
    /\ pc' = "returned"
    /\ UNCHANGED <<rule, saved, prev_fwr, rules, idx, evals, outcome, xvars>>

\* The caller is done with the result
Return ==
    /\ pc = "returned"
    /\ pc' = "idle"
    /\ request' = NoRequest
    /\ result' = NoMatch
    /\ UNCHANGED <<rule, saved, prev_fwr, rules, idx, evals, outcome, xvars>>

Create == \E t \in Types, f \in FromUrls, u \in ToUrls : CreateRule(t, f, u)

Update == \E t \in Types, f \in FromUrls : UpdateRule(t, f)

Match ==
    \E p \in Paths, fp \in FullPaths, lv \in Locales :
        GetRedirectPath(p, fp, lv[1], lv[2])

\* Rules are created and edited
Next == Create \/ Update

Spec == Init /\ [][Next]_vars

\* A rule is created and requests are matched against it
NextMatch == Create \/ Match \/ Return

SpecMatch == Init /\ [][NextMatch]_vars

-----------------------------------------------------------------------------
(* RedirectResolver: the first matching rule of an ordered sequence *)

\* The rules the resolver may be handed, each as save() stores it
ResolverRules ==
    {save([NewRedirect EXCEPT !.redirect_type = f[1], !.from_url = f[2],
                              !.to_url = f[3]]) :
        f \in {<<"exact", Dir(1), EMPTY>>,
               <<"exact", Dir(1) \o REST, <<"/", "b", "/">> >>,
               <<"prefix", Dir(1), EMPTY>>,
               <<"page", Dir(1), HTTP \o <<"h">> >>,
               <<"sphinx_html", EMPTY, EMPTY>>,
               <<"sphinx_htmldir", EMPTY, EMPTY>>}}

\* Ordered sequences of at most MaxRules rules
RuleSequences == UNION {[1..n -> ResolverRules] : n \in 0..MaxRules}

ResolverPaths == {Dir(1), Dir(1) \o SLASH, Dir(1) \o DOT_HTML, <<"/", "x">>}

ResolverFullPaths == {Dir(1), Dir(2) \o <<"/", "x">>, <<"/", "x">>}

\* The collaborator has supplied the project's active rules, in order
InitResolver ==
    /\ rule = NewRedirect
    /\ saved = FALSE
    /\ prev_fwr = None
    /\ pc = "idle"
    /\ request = NoRequest
    /\ result = NoMatch
    /\ rules \in RuleSequences
    /\ idx = 0
    /\ evals = [i \in 1..Len(rules) |-> 0]
    /\ outcome = NoMatch
    /\ NoExchanges

\* resolve(project, path, full_path, language, version_slug) is entered
StartResolve(path, full_path, language, version_slug) ==
    /\ pc = "idle"
    /\ pc' = "resolving"
    /\ request' = [path |-> path, full_path |-> full_path,
                   language |-> language, version_slug |-> version_slug]
    /\ idx' = 1
    /\ evals' = [i \in 1..Len(rules) |-> 0]
    /\ outcome' = NoMatch
    /\ UNCHANGED <<rule, saved, prev_fwr, result, rules, xvars>>

\* One turn of the loop: the next rule's matcher is run; a destination is
\* returned at once, NO_MATCH moves on to the following rule
ResolveStep ==
    /\ pc = "resolving"
    /\ idx <= Len(rules)
    /\ LET new_path == get_redirect_path(rules[idx], request.path, request.full_path,
                                         request.language, request.version_slug)
       IN  /\ evals' = [evals EXCEPT ![idx] = @ + 1]
           /\ IF new_path /= NoMatch
              THEN /\ outcome' = new_path
                   /\ pc' = "returned"
                   /\ idx' = idx
              ELSE /\ idx' = idx + 1
                   /\ UNCHANGED <<outcome, pc>>
    /\ UNCHANGED <<rule, saved, prev_fwr, request, result, rules, xvars>>

\* The loop has run out of rules: NO_MATCH
ResolveNoMatch ==
    /\ pc = "resolving"
    /\ idx > Len(rules)
    /\ outcome' = NoMatch
    /\ pc' = "returned"
    /\ UNCHANGED <<rule, saved, prev_fwr, request, result, rules, idx, evals, xvars>>

\* The caller is done with the outcome
ResolveReturn ==
    /\ pc = "returned"
    /\ pc' = "idle"
    /\ request' = NoRequest
    /\ idx' = 0
    /\ evals' = [i \in 1..Len(rules) |-> 0]
    /\ outcome' = NoMatch
    /\ UNCHANGED <<rule, saved, prev_fwr, result, rules, xvars>>

Resolve ==
    \E p \in ResolverPaths, fp \in ResolverFullPaths :
        StartResolve(p, fp, NoneArg, NoneArg)

NextResolver == Resolve \/ ResolveStep \/ ResolveNoMatch \/ ResolveReturn

SpecResolver == InitResolver /\ [][NextResolver]_vars

-----------------------------------------------------------------------------
(* Recording HTTP exchanges, one call after another *)

\* HttpExchangeManager.from_exchange(req, resp, related_object): the row is
\* created from the Django request and response, then delete_limit runs; the
\* clock has moved on by the next call
FromExchange(related_object) ==
    LET new == create(related_object)
    IN  /\ now < MaxCalls + 1
        /\ created' = created \cup {new}
        /\ exchanges' = delete_limit(exchanges \cup {new}, related_object, limit)
        /\ obj' = new
        /\ now' = now + 1
        /\ UNCHANGED rvars

\* HttpExchangeManager.from_requests_exchange(response, related_object): the
\* row is created from the requests response, then delete_limit runs
FromRequestsExchange(related_object) ==
    LET new == create(related_object)
    IN  /\ now < MaxCalls + 1
        /\ created' = created \cup {new}
        /\ exchanges' = delete_limit(exchanges \cup {new}, related_object, limit)
        /\ obj' = new
        /\ now' = now + 1
        /\ UNCHANGED rvars

NextExchange ==
    \/ \E o \in RelatedObjects : FromExchange(o)
    \/ \E o \in RelatedObjects : FromRequestsExchange(o)

SpecExchange == Init /\ [][NextExchange]_vars

-----------------------------------------------------------------------------
(* What the claims are stated with *)

\* sub occurs in s at position i
OccursAt(s, sub, i) ==
    i + Len(sub) - 1 <= Len(s) /\ SubSeq(s, i, i + Len(sub) - 1) = sub

\* s without the characters at the positions drop, in order
Without(s, drop) ==
    LET keep == (1..Len(s)) \ drop
        nth(j) == CHOOSE k \in keep : Cardinality({m \in keep : m < k}) = j - 1
    IN  [j \in 1..Cardinality(keep) |-> s[nth(j)]]

\* s with every occurrence of the $rest token taken out (two occurrences of
\* the token never overlap)
WithoutRest(s) ==
    Without(s, {k \in 1..Len(s) :
                   \E i \in 1..Len(s) : OccursAt(s, REST, i) /\ i <= k /\ k < i + Len(REST)})

\* The part of s before the first occurrence of the $rest token
BeforeRest(s) ==
    LET first == CHOOSE i \in 1..Len(s) :
                     /\ OccursAt(s, REST, i)
                     /\ \A j \in 1..(i - 1) : ~OccursAt(s, REST, j)
    IN  SubSeq(s, 1, first - 1)

\* s with all its leading "/" taken off: the suffix of s that does not start
\* with "/" and is preceded by "/" only
WithoutLeadingSlashes(s) ==
    LET n == CHOOSE k \in 0..Len(s) :
                 /\ \A i \in 1..k : s[i] = "/"
                 /\ (k < Len(s) => s[k + 1] /= "/")
    IN  SubSeq(s, n + 1, Len(s))

\* s without its last n characters
DropLast(s, n) == SubSeq(s, 1, Len(s) - n)

Returned(type) == pc = "returned" /\ rule.redirect_type = type

-----------------------------------------------------------------------------
(* C1, C9, C10: save() *)

\* C1 (as claimed): after every save, the stored from_url_without_rest is
\* unset or equals the stored from_url with the $rest token removed.
C1_DerivedFieldConsistent ==
    saved =>
        \/ rule.from_url_without_rest = None
        \/ rule.from_url_without_rest = Some(WithoutRest(rule.from_url))

\* C9: a saved Exact rule whose from_url contains $rest holds, as
\* from_url_without_rest, from_url with every occurrence of $rest removed,
\* whatever the field held when save() was entered.
C9_SaveRecomputes ==
    (saved /\ rule.redirect_type = "exact" /\ Contains(rule.from_url, REST)) =>
        rule.from_url_without_rest = Some(WithoutRest(rule.from_url))

\* C9 witness: an Exact rule with two $rest tokens was saved over a different,
\* already set from_url_without_rest.
C9_Witness ==
    /\ saved
    /\ rule.redirect_type = "exact"
    /\ \E i, j \in 1..Len(rule.from_url) :
           i < j /\ OccursAt(rule.from_url, REST, i) /\ OccursAt(rule.from_url, REST, j)
    /\ ~prev_fwr.isNone
    /\ prev_fwr /= rule.from_url_without_rest
    /\ rule.from_url_without_rest = Some(WithoutRest(rule.from_url))

\* C10 (as claimed): a rule whose type is none of the five never reaches the
\* dispatch of get_redirect_path, because saving it fails.
C10_UnknownTypeNeverDispatched ==
    pc = "returned" => rule.redirect_type \in TYPE_CHOICES

-----------------------------------------------------------------------------
(* C2..C7: the matchers *)

\* C2: an Exact rule without $rest returns to_url itself when full_path equals
\* from_url and NO_MATCH otherwise, whatever path is.
C2_ExactPlain ==
    (Returned("exact") /\ ~Contains(rule.from_url, REST)) =>
        result = IF request.full_path = rule.from_url
                 THEN Str(rule.to_url) ELSE NoMatch

\* C2 witness: full_path equals from_url, path differs, to_url came back.
C2_Witness ==
    /\ Returned("exact")
    /\ ~Contains(rule.from_url, REST)
    /\ request.full_path = rule.from_url
    /\ request.path /= request.full_path
    /\ rule.to_url /= EMPTY
    /\ result = Str(rule.to_url)

\* C3: an Exact rule with $rest, for a full_path other than from_url: if
\* full_path starts with the part of from_url before the first $rest, the
\* result is to_url followed by what follows that part in full_path;
\* otherwise NO_MATCH.
C3_ExactRest ==
    (/\ Returned("exact")
     /\ Contains(rule.from_url, REST)
     /\ request.full_path /= rule.from_url) =>
        LET match == BeforeRest(rule.from_url)
        IN  result = IF StartsWith(request.full_path, match)
                     THEN Str(rule.to_url \o DropFirst(request.full_path, Len(match)))
                     ELSE NoMatch

\* C3 witness: the matched part occurs again later in full_path, and only its
\* first occurrence was replaced.
C3_Witness ==
    /\ Returned("exact")
    /\ Contains(rule.from_url, REST)
    /\ request.full_path /= rule.from_url
    /\ LET match == BeforeRest(rule.from_url)
           after == DropFirst(request.full_path, Len(match))
       IN  /\ match /= EMPTY
           /\ StartsWith(request.full_path, match)
           /\ Contains(after, match)
           /\ rule.to_url /= EMPTY
           /\ result = Str(rule.to_url \o after)

\* C4: a Prefix rule gives NO_MATCH unless path starts with from_url, and then
\* resolve_path of path without that leading from_url, with the language and
\* version given (never the filename itself: allow_crossdomain is false).
C4_Prefix ==
    Returned("prefix") =>
        result = IF StartsWith(request.path, rule.from_url)
                 THEN resolve_path(request.language, request.version_slug,
                                   DropFirst(request.path, Len(rule.from_url)))
                 ELSE NoMatch

\* C4 witness: from_url occurs again in the remainder, which is kept whole.
C4_Witness ==
    /\ Returned("prefix")
    /\ rule.from_url /= EMPTY
    /\ StartsWith(request.path, rule.from_url)
    /\ Contains(DropFirst(request.path, Len(rule.from_url)), rule.from_url)
    /\ result.kind = "resolve_path"
    /\ result.value = DropFirst(request.path, Len(rule.from_url))

SphinxHtmlEnding(path) ==
    IF EndsWith(path, SLASH) THEN SLASH
    ELSE IF EndsWith(path, INDEX_HTML) THEN INDEX_HTML
    ELSE EMPTY

\* C6 (as claimed): for every path ending with "/" or "/index.html", "/" and
\* "/index.html" included, resolve_path is handed the path with the matched
\* ending replaced by ".html" and the leading "/" stripped; any other path
\* gives NO_MATCH.
C6_SphinxHtmlAsClaimed ==
    Returned("sphinx_html") =>
        LET ending == SphinxHtmlEnding(request.path)
            replaced == DropLast(request.path, Len(ending)) \o DOT_HTML
        IN  result = IF ending = EMPTY THEN NoMatch
                     ELSE resolve_path(request.language, request.version_slug,
                                       IF StartsWith(replaced, SLASH)
                                       THEN DropFirst(replaced, 1) ELSE replaced)

\* C6 (amended): the same for every path longer than its matched ending; for
\* the paths "/" and "/index.html" themselves resolve_path is handed the path
\* with its leading "/" stripped and nothing replaced ("" and "index.html").
C6_SphinxHtml ==
    Returned("sphinx_html") =>
        LET ending == SphinxHtmlEnding(request.path)
            stripped == DropFirst(request.path, 1)
        IN  result = IF ending = EMPTY THEN NoMatch
                     ELSE IF request.path = ending
                     THEN resolve_path(request.language, request.version_slug,
                                       stripped)
                     ELSE resolve_path(request.language, request.version_slug,
                                       DropLast(stripped, Len(ending)) \o DOT_HTML)

\* C6 witness: the path "/index.html" itself was matched and "index.html"
\* handed on.
C6_Witness ==
    /\ Returned("sphinx_html")
    /\ request.path = INDEX_HTML
    /\ result.kind = "resolve_path"
    /\ result.value = DropFirst(INDEX_HTML, 1)

\* C7: a SphinxHtmlDirToHtml rule gives NO_MATCH unless path ends with
\* ".html"; then resolve_path is handed the path without its leading "/" and
\* with that final ".html" alone replaced by "/".
C7_SphinxHtmlDir ==
    Returned("sphinx_htmldir") =>
        result = IF EndsWith(request.path, DOT_HTML)
                 THEN resolve_path(request.language, request.version_slug,
                                   DropFirst(DropLast(request.path, Len(DOT_HTML)), 1)
                                       \o SLASH)
                 ELSE NoMatch

\* C7 witness: ".html" also occurs earlier in the path and was left alone.
C7_Witness ==
    /\ Returned("sphinx_htmldir")
    /\ EndsWith(request.path, DOT_HTML)
    /\ Contains(DropLast(request.path, Len(DOT_HTML)), DOT_HTML)
    /\ result.kind = "resolve_path"
    /\ Contains(result.value, DOT_HTML)
    /\ EndsWith(result.value, SLASH)

-----------------------------------------------------------------------------
(* C8: the resolver *)

\* What the matcher of r's type returns for the request req
MatcherResult(r, req) ==
    CASE r.redirect_type = "prefix" ->
             redirect_prefix(r, req.path, req.full_path, req.language, req.version_slug)
      [] r.redirect_type = "page" ->
             redirect_page(r, req.path, req.full_path, req.language, req.version_slug)
      [] r.redirect_type = "exact" ->
             redirect_exact(r, req.path, req.full_path, req.language, req.version_slug)
      [] r.redirect_type = "sphinx_html" ->
             redirect_sphinx_html(r, req.path, req.full_path, req.language,
                                  req.version_slug)
      [] r.redirect_type = "sphinx_htmldir" ->
             redirect_sphinx_htmldir(r, req.path, req.full_path, req.language,
                                     req.version_slug)

\* The positions of the rules whose matcher returns a destination
Hits == {i \in 1..Len(rules) : MatcherResult(rules[i], request) /= NoMatch}

\* C8: resolve returns the destination of the first rule, in the order
\* supplied, whose matcher returns one (the empty string included); the rules
\* up to that one were each evaluated once and no later rule at all; NO_MATCH
\* is returned only when every rule gave NO_MATCH.
C8_FirstMatchWins ==
    (pc = "returned" /\ idx > 0) =>
        IF Hits = {}
        THEN /\ outcome = NoMatch
             /\ \A i \in 1..Len(rules) : evals[i] = 1
        ELSE LET first == CHOOSE i \in Hits : \A j \in Hits : i <= j
             IN  /\ outcome = MatcherResult(rules[first], request)
                 /\ outcome /= NoMatch
                 /\ \A i \in 1..first : evals[i] = 1
                 /\ \A i \in (first + 1)..Len(rules) : evals[i] = 0

\* C8 witness: two rules match the request, the first one's destination is the
\* empty string, it was returned and the second rule was never evaluated.
C8_Witness ==
    /\ pc = "returned"
    /\ idx > 0
    /\ Len(rules) >= 2
    /\ Hits = 1..Len(rules)
    /\ outcome = Str(EMPTY)
    /\ evals[1] = 1
    /\ evals[2] = 0

-----------------------------------------------------------------------------
(* C11: no match is not a destination *)

\* The rule's match condition holds for the request
Matches(r, req) ==
    CASE r.redirect_type = "prefix" -> StartsWith(req.path, r.from_url)
      [] r.redirect_type = "page" -> req.path = r.from_url
      [] r.redirect_type = "exact" ->
             \/ req.full_path = r.from_url
             \/ /\ Contains(r.from_url, REST)
                /\ StartsWith(req.full_path, BeforeRest(r.from_url))
      [] r.redirect_type = "sphinx_html" -> SphinxHtmlEnding(req.path) /= EMPTY
      [] r.redirect_type = "sphinx_htmldir" -> EndsWith(req.path, DOT_HTML)

\* C11: for each of the five types, a rule that does not match returns None,
\* and a rule that matches returns a destination (a str, or what resolve_path
\* builds), never None; so an Exact rule with an empty to_url and
\* full_path = from_url returns the empty string, which is not None.
C11_NoMatchIsExplicit ==
    (pc = "returned" /\ rule.redirect_type \in TYPE_CHOICES) =>
        /\ ~Matches(rule, request) => result = NoMatch
        /\ Matches(rule, request) =>
               /\ result.kind \in {"str", "resolve_path"}
               /\ result /= NoMatch
        /\ (/\ rule.redirect_type = "exact"
            /\ rule.to_url = EMPTY
            /\ request.full_path = rule.from_url) =>
               result = Str(EMPTY)

\* C11 witness: an Exact rule with an empty to_url matched its full_path and
\* returned the empty string.
C11_Witness ==
    /\ Returned("exact")
    /\ rule.to_url = EMPTY
    /\ request.full_path = rule.from_url
    /\ result = Str(EMPTY)
    /\ result /= NoMatch

-----------------------------------------------------------------------------
(* C12: resolution changes nothing *)

\* C12: a get_redirect_path call leaves every field of the rule as it was,
\* and what it returns is what get_redirect_path gives for the same arguments
\* on the rule as it stands after the call: a second resolution of the same
\* request returns the same.
C12_ResolutionIsPure ==
    [][(pc = "idle" /\ pc' = "returned") =>
           /\ rule' = rule
           /\ saved' = saved
           /\ result' = get_redirect_path(rule', request'.path, request'.full_path,
                                          request'.language, request'.version_slug)]_vars

\* C12 witness: a request was resolved to a destination against a rule that
\* holds a derived from_url_without_rest, and the rule is still what save()
\* wrote.
C12_Witness ==
    /\ Returned("exact")
    /\ result.kind = "str"
    /\ ~rule.from_url_without_rest.isNone
    /\ rule = save(rule)
    /\ rule.force = FALSE /\ rule.http_status = 302 /\ rule.status = TRUE

-----------------------------------------------------------------------------
(* C13: off-site destinations *)

-----------------------------------------------------------------------------
(* C14: at most ten exchanges per object *)

\* C14: after every call, each related object has at most 10 exchanges, they
\* are the ones with the latest dates among all ever recorded for it (none is
\* deleted while fewer than 10 exist), and the row the call returned is still
\* in the table.
C14_LimitKeepsLatest ==
    /\ \A o \in RelatedObjects :
           LET mine == filter(exchanges, o)
               made == filter(created, o)
           IN  /\ Cardinality(mine) <= 10
               /\ mine \subseteq made
               /\ \A r \in mine : \A d \in made \ mine : r.date > d.date
               /\ Cardinality(made) <= 10 => mine = made
               /\ Cardinality(made) > 10 => Cardinality(mine) = 10
    /\ obj /= NoExchange => obj \in exchanges

\* C14 witness: an object has had more than 10 exchanges recorded, 10 are
\* left, the one just created among them, and the other object's are intact.
C14_Witness ==
    \E o \in RelatedObjects :
        /\ Cardinality(filter(created, o)) > 10
        /\ Cardinality(filter(exchanges, o)) = 10
        /\ obj \in filter(exchanges, o)
        /\ \E other \in RelatedObjects \ {o} :
               /\ filter(exchanges, other) /= {}
               /\ filter(exchanges, other) = filter(created, other)

====
